---- MODULE Spec2Model ----
(***************************************************************************)
(* GENX AI Studio backend (src/Backend/app.py).                            *)
(*                                                                         *)
(* Two specifications over one set of variables:                           *)
(*   Spec          the Flask application: POST /api/v1/generate/multimodal *)
(*                 and GET /api/v1/jobs/<job_id>/status acting on the      *)
(*                 process-wide registry fusion_engine.active_jobs;        *)
(*   SpecPipeline  ModelFusionEngine.process_multimodal_scene driven by a  *)
(*                 direct caller, one step per asyncio suspension point.   *)
(*                                                                         *)
(* Floats are kept as scaled integers: timestamps in tenths of a second,   *)
(* quality scores in hundredths.  uuid4 values are modelled as the ordinal *)
(* of the uuid4 call that produced them.                                   *)
(***************************************************************************)
EXTENDS Integers, Sequences, FiniteSets, TLC

VARIABLES active_jobs, uuid_count, request, response, issued, calls

vars == <<active_jobs, uuid_count, request, response, issued, calls>>

\* ---------------------------------------------------------------- bounds
MaxJobs == 2
MaxCalls == 2

\* ------------------------------------------------------------- constants
EstimatedTime == 30
LipsyncRepeat == 10
LipsyncLength == 50

None == [none |-> TRUE]

\* ------------------------------------------------------------- uuid.uuid4
\* str(uuid.uuid4()): a value no earlier call returned; n is the number of
\* uuid4 calls made so far in the process.
uuid4(n) == n + 1

\* ================================================================ boundary
required_fields ==
    <<"scene_id", "text_prompt", "emotion", "intensity", "style",
      "camera_angle", "models">>

RequiredSet == {required_fields[i] : i \in 1..Len(required_fields)}

AllKeys == RequiredSet \cup {"parameters"}

\* What float(data['intensity']) is applied to.
IntensityKinds == {"number", "numeric_string", "text_string", "null"}

\* Request bodies as request.get_json() sees them.
\*   object : keys     = the keys of the JSON object
\*   array  : keys     = the strings that are elements of the JSON array
\*   string : keys     = the field names that occur as substrings
\*   number, null      : a body for which `field in data` raises TypeError
\*   invalid           : get_json() itself raises (unparsable body)
Bodies ==
    { [kind |-> "object", keys |-> K, intensity |-> v] :
          K \in {S \in SUBSET AllKeys : "intensity" \in S}, v \in IntensityKinds }
    \cup { [kind |-> "object", keys |-> K, intensity |-> "absent"] :
          K \in {S \in SUBSET AllKeys : "intensity" \notin S} }
    \cup { [kind |-> k, keys |-> K, intensity |-> "absent"] :
          k \in {"array", "string"}, K \in SUBSET RequiredSet }
    \cup { [kind |-> k, keys |-> {}, intensity |-> "absent"] :
          k \in {"number", "null", "invalid"} }

\* request.get_json() raises on a body that is not parsable JSON.
get_json_raises(data) == data.kind = "invalid"

\* `field not in data` raises TypeError when data is not a container.
in_raises(data) == data.kind \in {"number", "null"}

\* `field in data`: key test on a dict, element test on a list, substring
\* test on a str.
Contains(data, field) == field \in data.keys

\* for field in required_fields: if field not in data: return ... 400
\* Index of the first missing field, 0 when none is missing.
RECURSIVE first_missing_from(_, _)
first_missing_from(data, i) ==
    IF i > Len(required_fields) THEN 0
    ELSE IF ~Contains(data, required_fields[i]) THEN i
    ELSE first_missing_from(data, i + 1)

\* the last missing field instead of the first
first_missing_reports_last(data) ==
    IF \A i \in 1..Len(required_fields) : Contains(data, required_fields[i])
    THEN 0
    ELSE CHOOSE i \in 1..Len(required_fields) :
             /\ ~Contains(data, required_fields[i])
             /\ \A j \in (i + 1)..Len(required_fields) : Contains(data, required_fields[j])

first_missing(data) == first_missing_from(data, 1)

\* float(x)
float_raises(v) == v \in {"text_string", "null"}

\* GenerationRequest(scene_id=data['scene_id'], ..., intensity=float(...)):
\* data['scene_id'] raises TypeError on a list or a str.
build_request_raises(data) ==
    \/ data.kind # "object"
    \/ float_raises(data.intensity)

MissingFieldResponse(field) ==
    [code |-> 400, body |-> [error |-> <<"Missing required field: ", field>>]]

InternalErrorResponse ==
    [code |-> 500, body |-> [error |-> "Internal server error"]]

AcceptedResponse(job_id) ==
    [code |-> 202,
     body |-> [job_id |-> job_id,
               status |-> "processing",
               estimated_time |-> EstimatedTime,
               progress_url |-> <<"/api/v1/jobs/", job_id, "/status">>]]

\* the registry replaced by a one-entry mapping
RegisterJobReplacing(jobs, job_id) == [j \in {job_id} |-> "processing"]

\* fusion_engine.active_jobs[job_id] = "processing"
RegisterJob(jobs, job_id) ==
    [j \in DOMAIN jobs \cup {job_id} |->
        IF j = job_id THEN "processing" ELSE jobs[j]]

\* the job registered on entry, before validation and construction
generate_multimodal_registers_first(data, jobs, n) ==
    LET job_id == uuid4(n)
        registered == RegisterJob(jobs, job_id)
    IN  IF get_json_raises(data) \/ in_raises(data)
        THEN [response |-> InternalErrorResponse, active_jobs |-> registered,
              uuid_count |-> n + 1]
        ELSE IF first_missing(data) # 0
        THEN [response |-> MissingFieldResponse(required_fields[first_missing(data)]),
              active_jobs |-> registered, uuid_count |-> n + 1]
        ELSE IF build_request_raises(data)
        THEN [response |-> InternalErrorResponse, active_jobs |-> registered,
              uuid_count |-> n + 1]
        ELSE [response |-> AcceptedResponse(job_id), active_jobs |-> registered,
              uuid_count |-> n + 1]

\* The whole handler: the response, the registry and the uuid4 call count
\* it leaves behind.
generate_multimodal(data, jobs, n) ==
    IF get_json_raises(data) \/ in_raises(data)
    THEN [response |-> InternalErrorResponse, active_jobs |-> jobs, uuid_count |-> n]
    ELSE IF first_missing(data) # 0
    THEN [response |-> MissingFieldResponse(required_fields[first_missing(data)]),
          active_jobs |-> jobs, uuid_count |-> n]
    ELSE IF build_request_raises(data)
    THEN [response |-> InternalErrorResponse, active_jobs |-> jobs, uuid_count |-> n]
    ELSE LET job_id == uuid4(n)
         IN  [response |-> AcceptedResponse(job_id),
              active_jobs |-> RegisterJob(jobs, job_id),
              uuid_count |-> n + 1]

NotFoundResponse == [code |-> 404, body |-> [error |-> "Job not found"]]

\* mock_result; scores in hundredths, processing_time in tenths of a second
MockResult(job_id) ==
    [code |-> 200,
     body |-> [job_id |-> job_id,
               status |-> "completed",
               progress |-> 100,
               result |-> [scene_id |-> "scene-001",
                           outputs |-> [video |-> "https://example.com/generated-video.mp4",
                                        audio |-> "https://example.com/generated-audio.mp3",
                                        metadata |-> [emotion_accuracy |-> 94,
                                                      visual_quality |-> 91,
                                                      audio_sync |-> 96]],
                           processing_time |-> 253]]]

\* the stored status reported instead of the fixed payload
get_job_status_reports_stored(job_id, jobs) ==
    IF job_id \notin DOMAIN jobs
    THEN [response |-> NotFoundResponse, active_jobs |-> jobs]
    ELSE [response |-> [MockResult(job_id) EXCEPT !.body.status = jobs[job_id],
                                                  !.body.progress = 0],
          active_jobs |-> jobs]

get_job_status(job_id, jobs) ==
    IF job_id \notin DOMAIN jobs
    THEN [response |-> NotFoundResponse, active_jobs |-> jobs]
    ELSE [response |-> MockResult(job_id), active_jobs |-> jobs]

NoRequest == [op |-> "none"]
NoResponse == [code |-> 0, body |-> None]

\* Job ids a client may ask about: 0 is never issued.
JobIds == 0..MaxJobs

Init ==
    /\ active_jobs = << >>
    /\ uuid_count = 0
    /\ request = NoRequest
    /\ response = NoResponse
    /\ issued = {}
    /\ calls = << >>

\* POST /api/v1/generate/multimodal
GenerateMultimodal ==
    \E data \in Bodies :
        LET out == generate_multimodal(data, active_jobs, uuid_count)
        IN  /\ out.uuid_count <= MaxJobs
            /\ request' = [op |-> "generate", data |-> data]
            /\ response' = out.response
            /\ active_jobs' = out.active_jobs
            /\ uuid_count' = out.uuid_count
            /\ issued' = IF out.response.code = 202
                         THEN issued \cup {out.response.body.job_id}
                         ELSE issued
            /\ UNCHANGED calls

\* GET /api/v1/jobs/<job_id>/status
GetJobStatus ==
    \E job_id \in JobIds :
        LET out == get_job_status(job_id, active_jobs)
        IN  /\ request' = [op |-> "status", job_id |-> job_id]
            /\ response' = out.response
            /\ active_jobs' = out.active_jobs
            /\ UNCHANGED <<uuid_count, issued, calls>>

Next == GenerateMultimodal \/ GetJobStatus

Spec == Init /\ [][Next]_vars

\* ================================================================ pipeline
\* str values are sequences of one-character strings.
WheatFieldPrompt == <<"W","h","e","a","t"," ","F","i","e","l","d">>
WheatPrompt == <<"w","h","e","a","t">>
WheatFieldNeedle == <<"w","h","e","a","t"," ","f","i","e","l","d">>

\* str.lower() on the characters the prompts use
LowerChar(c) == CASE c = "W" -> "w" [] c = "F" -> "f" [] OTHER -> c

Lower(s) == [i \in 1..Len(s) |-> LowerChar(s[i])]

\* needle in haystack
IsSubstring(needle, haystack) ==
    \E i \in 1..(Len(haystack) - Len(needle) + 1) :
        SubSeq(haystack, i, i + Len(needle) - 1) = needle

\* GenerationRequest is a dataclass and checks no field type: text_prompt
\* may be a non-str (no .lower()), scene_id may be unhashable (a list).
TextPrompts ==
    { [type |-> "str", chars |-> WheatFieldPrompt],
      [type |-> "str", chars |-> WheatPrompt],
      [type |-> "int", chars |-> << >>] }

SceneIds ==
    { [type |-> "str", value |-> "scene-001"],
      [type |-> "list", value |-> "scene-001"] }

GenerationRequests ==
    { [scene_id |-> s, text_prompt |-> t, emotion |-> "joy", intensity |-> 1,
       style |-> "cinematic", camera_angle |-> "wide",
       models |-> [text |-> "claude-3-haiku", image |-> "flux", video |-> "seedance"],
       parameters |-> None] : s \in SceneIds, t \in TextPrompts }

Stages == {"enhance", "visual", "audio", "fuse"}

\* asyncio.sleep durations, tenths of a second
SleepTenths(stage) ==
    CASE stage = "enhance" -> 5
      [] stage = "visual" -> 20
      [] stage = "audio" -> 15
      [] stage = "fuse" -> 10

\* The order of the awaits in process_multimodal_scene
StageAfterSwapped(stage) ==
    CASE stage = "enhance" -> "audio"
      [] stage = "audio" -> "visual"
      [] stage = "visual" -> "fuse"
      [] stage = "fuse" -> "returned"

StageAfter(stage) ==
    CASE stage = "enhance" -> "visual"
      [] stage = "visual" -> "audio"
      [] stage = "audio" -> "fuse"
      [] stage = "fuse" -> "returned"

\* Lines 57-63 and 94-112: request_id is drawn, the coroutine of the first
\* stage is entered and suspends at its asyncio.sleep.
start_call_shared_id(req, n) ==
    [req |-> req, request_id |-> uuid4(0), pc |-> "enhance",
     enhanced_text |-> None, visual_outputs |-> None, audio_outputs |-> None,
     fused_output |-> None, result |-> None, exc |-> "None", slept |-> 0]

start_call(req, n) ==
    [req |-> req, request_id |-> uuid4(n), pc |-> "enhance",
     enhanced_text |-> None, visual_outputs |-> None, audio_outputs |-> None,
     fused_output |-> None, result |-> None, exc |-> "None", slept |-> 0]

\* What _enhance_text_prompt raises after its sleep
enhance_exc(req) ==
    IF req.text_prompt.type # "str" THEN "AttributeError" ELSE "None"

_enhance_text_prompt(req) ==
    IF IsSubstring(WheatFieldNeedle, Lower(req.text_prompt.chars))
    THEN [template |-> "wheat field", camera_angle |-> req.camera_angle,
          emotion |-> req.emotion, style |-> req.style,
          percent |-> req.intensity * 100, text_prompt |-> << >>]
    ELSE [template |-> "generic", camera_angle |-> req.camera_angle,
          emotion |-> req.emotion, style |-> req.style,
          percent |-> req.intensity * 100, text_prompt |-> req.text_prompt.chars]

\* hash(req.scene_id) raises TypeError on an unhashable scene_id
visuals_exc(req) ==
    IF req.scene_id.type # "str" THEN "TypeError" ELSE "None"

\* scores in hundredths; the url is kept as its parts
_generate_visuals(req, enhanced_text) ==
    [images |-> << [url |-> [base |-> "https://image.pollinations.ai/prompt/",
                             prompt |-> [replace_space_by_pct20 |-> enhanced_text],
                             width |-> 1920, height |-> 1080,
                             seed |-> [hash_mod_10000 |-> req.scene_id.value]],
                    style |-> req.style,
                    emotion_accuracy |-> 92,
                    technical_quality |-> 89] >>,
     videos |-> << [url |-> [base |-> "https://video.pollinations.ai/prompt/",
                             prompt |-> [replace_space_by_pct20 |-> enhanced_text],
                             duration |-> 10, fps |-> 30],
                    camera_work |-> req.camera_angle,
                    motion_quality |-> 87,
                    emotional_sync |-> 94] >>]

\* list * n
ListTimes(s, n) == [i \in 1..(Len(s) * n) |-> s[((i - 1) % Len(s)) + 1]]

\* [i * 0.1 for i in range(50)], in tenths of a second
lipsync_timestamps_from_one == [i \in 1..LipsyncLength |-> i]

lipsync_timestamps == [i \in 1..LipsyncLength |-> i - 1]

_generate_audio(req, enhanced_text) ==
    [voice |-> [url |-> [base |-> "https://audio.pollinations.ai/speech/",
                         prompt |-> [first_100_chars |-> enhanced_text],
                         voice |-> "child", emotion |-> req.emotion],
                emotion_match |-> 91,
                naturalness |-> 88,
                lipsync_data |->
                    [phonemes |-> ListTimes(<<"A", "E", "I", "O", "U">>, LipsyncRepeat),
                     timestamps |-> lipsync_timestamps,
                     mouth_shapes |-> ListTimes(<<"open", "smile", "narrow", "round", "pucker">>,
                                                LipsyncRepeat)]],
     music |-> [url |-> [base |-> "https://audio.pollinations.ai/music/cinematic-",
                         emotion |-> req.emotion, tempo |-> 120, key |-> "C"],
                mood_alignment |-> 93,
                emotional_progression |-> TRUE,
                adaptive_sync |-> TRUE]]

\* times in tenths of a second, scores in hundredths
_fuse_modalities(visual, audio, req) ==
    [primary_content |-> [video |-> visual.videos[1].url,
                          audio |-> audio.music.url,
                          voice |-> audio.voice.url],
     synchronized_timeline |-> [total_duration |-> 100,
                                emotion_peaks |-> <<25, 50, 85>>,
                                camera_transitions |-> <<0, 30, 60, 90>>,
                                audio_sync_points |-> <<0, 20, 40, 60, 80>>],
     fusion_metadata |-> [visual_audio_sync |-> 96,
                          emotional_coherence |-> 94,
                          technical_quality |-> 91,
                          creative_score |-> 89],
     render_ready |-> [flux_pipeline |-> TRUE, lipsync_enabled |-> TRUE,
                       seedance_processing |-> TRUE, webgl_optimized |-> TRUE]]

\* GenerationResult(...) of lines 76-88; processing_time is the time slept,
\* in tenths of a second
GenerationResult(call, fused_output, elapsed) ==
    [request_id |-> call.request_id,
     scene_id |-> call.req.scene_id,
     status |-> "completed",
     outputs |-> fused_output,
     metadata |-> [enhanced_prompt |-> call.enhanced_text,
                   models_used |-> call.req.models,
                   emotion_context |-> [emotion |-> call.req.emotion,
                                        intensity |-> call.req.intensity],
                   processing_stages |-> <<"text_enhancement", "visual_generation",
                                           "audio_generation", "fusion">>],
     processing_time |-> elapsed]

\* No try/except surrounds the awaits: an exception leaves the coroutine.
RaisePartialResult(call, exc) ==
    [call EXCEPT !.pc = "returned", !.exc = exc,
                 !.result = [request_id |-> call.request_id,
                             scene_id |-> call.req.scene_id,
                             status |-> "failed",
                             outputs |-> call.fused_output,
                             metadata |-> None,
                             processing_time |-> call.slept]]

Raise(call, exc) == [call EXCEPT !.pc = "raised", !.exc = exc]

\* A stage returned: its sleep is over and the next await (or the return)
\* is reached.
Advance(call) ==
    [call EXCEPT !.slept = call.slept + SleepTenths(call.pc),
                 !.pc = StageAfter(call.pc)]

\* process_multimodal_scene(req) is called and runs to the first sleep.
Invoke ==
    /\ Len(calls) < MaxCalls
    /\ \E req \in GenerationRequests :
           calls' = Append(calls, start_call(req, uuid_count))
    /\ uuid_count' = uuid_count + 1
    /\ UNCHANGED <<active_jobs, request, response, issued>>

\* _enhance_text_prompt wakes, fills its template and returns
ResumeEnhance ==
    \E i \in DOMAIN calls :
        /\ calls[i].pc = "enhance"
        /\ calls' = [calls EXCEPT ![i] =
               IF enhance_exc(calls[i].req) # "None"
               THEN Raise(calls[i], enhance_exc(calls[i].req))
               ELSE Advance([calls[i] EXCEPT
                        !.enhanced_text = _enhance_text_prompt(calls[i].req)])]
        /\ UNCHANGED <<active_jobs, uuid_count, request, response, issued>>

\* _generate_visuals wakes, builds its descriptors and returns
ResumeVisual ==
    \E i \in DOMAIN calls :
        /\ calls[i].pc = "visual"
        /\ calls' = [calls EXCEPT ![i] =
               IF visuals_exc(calls[i].req) # "None"
               THEN Raise(calls[i], visuals_exc(calls[i].req))
               ELSE Advance([calls[i] EXCEPT
                        !.visual_outputs =
                            _generate_visuals(calls[i].req, calls[i].enhanced_text)])]
        /\ UNCHANGED <<active_jobs, uuid_count, request, response, issued>>

\* _generate_audio wakes, builds its descriptors and returns
ResumeAudio ==
    \E i \in DOMAIN calls :
        /\ calls[i].pc = "audio"
        /\ calls' = [calls EXCEPT ![i] =
               Advance([calls[i] EXCEPT
                   !.audio_outputs =
                       _generate_audio(calls[i].req, calls[i].enhanced_text)])]
        /\ UNCHANGED <<active_jobs, uuid_count, request, response, issued>>

\* _fuse_modalities wakes and returns; the result is assembled and returned
ResumeFuse ==
    \E i \in DOMAIN calls :
        /\ calls[i].pc = "fuse"
        /\ LET fused == _fuse_modalities(calls[i].visual_outputs,
                                         calls[i].audio_outputs, calls[i].req)
               done == Advance([calls[i] EXCEPT !.fused_output = fused])
           IN  calls' = [calls EXCEPT ![i] =
                   [done EXCEPT !.result = GenerationResult(done, fused, done.slept)]]
        /\ UNCHANGED <<active_jobs, uuid_count, request, response, issued>>

\* The caller cancels the task: asyncio.sleep raises CancelledError at the
\* suspension point of the running stage.
Cancel ==
    \E i \in DOMAIN calls :
        /\ calls[i].pc \in Stages
        /\ calls' = [calls EXCEPT ![i] = Raise(calls[i], "CancelledError")]
        /\ UNCHANGED <<active_jobs, uuid_count, request, response, issued>>

NextPipeline ==
    Invoke \/ ResumeEnhance \/ ResumeVisual \/ ResumeAudio \/ ResumeFuse \/ Cancel

SpecPipeline == Init /\ [][NextPipeline]_vars

\* ================================================================== claims

CallFields(c) ==
    <<c.enhanced_text, c.visual_outputs, c.audio_outputs, c.fused_output, c.result>>

\* C1: in every invocation the stages run in the order enhancement, visual,
\* audio, fusion: a stage is running only when every earlier stage has
\* delivered its output and no later stage has started, and a result exists
\* only once fusion has delivered its output.
C1_StagesInOrder ==
    \A i \in DOMAIN calls :
        LET c == calls[i]
        IN  /\ c.pc = "enhance" =>
                   CallFields(c) = <<None, None, None, None, None>>
            /\ c.pc = "visual" =>
                   /\ c.enhanced_text # None
                   /\ <<c.visual_outputs, c.audio_outputs, c.fused_output, c.result>>
                          = <<None, None, None, None>>
            /\ c.pc = "audio" =>
                   /\ c.enhanced_text # None /\ c.visual_outputs # None
                   /\ <<c.audio_outputs, c.fused_output, c.result>> = <<None, None, None>>
            /\ c.pc = "fuse" =>
                   /\ c.enhanced_text # None /\ c.visual_outputs # None
                   /\ c.audio_outputs # None
                   /\ <<c.fused_output, c.result>> = <<None, None>>
            /\ c.visual_outputs # None => c.enhanced_text # None
            /\ c.audio_outputs # None => c.visual_outputs # None
            /\ c.fused_output # None => c.audio_outputs # None
            /\ c.result # None => c.fused_output # None /\ c.pc = "returned"

C1_Witness ==
    \E i \in DOMAIN calls :
        /\ calls[i].pc = "returned"
        /\ calls[i].result # None
        /\ calls[i].result.outputs = calls[i].fused_output

\* C2: a generate request whose body is an object lacking a required field
\* is answered 400 "Missing required field: <name>" where <name> is the
\* first missing field in the listed order; an object holding all seven
\* fields is never answered 400.
C2_MissingFieldNamed ==
    (request.op = "generate" /\ request.data.kind = "object") =>
        IF RequiredSet \subseteq request.data.keys
        THEN response.code # 400
        ELSE \E i \in 1..Len(required_fields) :
                 /\ required_fields[i] \notin request.data.keys
                 /\ \A j \in 1..(i - 1) : required_fields[j] \in request.data.keys
                 /\ response.code = 400
                 /\ response.body.error =
                        <<"Missing required field: ", required_fields[i]>>

C2_Witness ==
    /\ request.op = "generate"
    /\ request.data.kind = "object"
    /\ Cardinality(RequiredSet \ request.data.keys) >= 2
    /\ "scene_id" \in request.data.keys
    /\ response.code = 400

\* C3: a status request is answered 404 "Job not found" exactly when its job
\* id was never issued in a 202 response; otherwise it is answered with the
\* fixed payload (status "completed", progress 100, the job id echoed)
\* although the registry holds "processing"; it leaves the registry as it was.
C3_StatusAnswer ==
    [][request'.op = "status" =>
          /\ active_jobs' = active_jobs
          /\ (response'.code = 404) <=> (request'.job_id \notin issued)
          /\ request'.job_id \notin issued =>
                 response'.body = [error |-> "Job not found"]
          /\ request'.job_id \in issued =>
                 /\ response'.code = 200
                 /\ response'.body.job_id = request'.job_id
                 /\ response'.body.status = "completed"
                 /\ response'.body.progress = 100
                 /\ response'.body.result.scene_id = "scene-001"
                 /\ active_jobs[request'.job_id] = "processing"]_vars

C3_Witness ==
    /\ request.op = "status"
    /\ response.code = 200
    /\ response.body.status = "completed"
    /\ active_jobs[request.job_id] = "processing"
    /\ Cardinality(issued) >= 2

\* C4: every generate request that passes the required-field validation is
\* answered 202 with a fresh job id, status "processing" and the progress
\* url of that job; the job is registered as "processing"; no pipeline
\* invocation is started.
C4_ValidatedIsAccepted ==
    (/\ request.op = "generate"
     /\ ~get_json_raises(request.data)
     /\ ~in_raises(request.data)
     /\ RequiredSet \subseteq request.data.keys) =>
        /\ response.code = 202
        /\ response.body.status = "processing"
        /\ response.body.progress_url =
               <<"/api/v1/jobs/", response.body.job_id, "/status">>
        /\ response.body.job_id \in DOMAIN active_jobs
        /\ active_jobs[response.body.job_id] = "processing"
        /\ calls = << >>

\* C5: a generate request with a missing or malformed required field (a
\* body that is not a JSON object, an intensity that float() rejects) is
\* answered 400, never 500.
C5_MalformedIs400 ==
    (/\ request.op = "generate"
     /\ \/ request.data.kind # "object"
        \/ ~(RequiredSet \subseteq request.data.keys)
        \/ request.data.intensity \in {"text_string", "null"}) =>
        response.code = 400

\* C6: every returned GenerationResult carries the request_id drawn for its
\* own invocation, different from that of every other invocation; scene_id
\* is the request's and status is "completed".
C6_RequestIdFresh ==
    \A i \in DOMAIN calls :
        /\ \A j \in DOMAIN calls : i # j => calls[i].request_id # calls[j].request_id
        /\ calls[i].pc = "returned" =>
               /\ calls[i].result # None
               /\ calls[i].result.request_id = calls[i].request_id
               /\ calls[i].result.scene_id = calls[i].req.scene_id
               /\ calls[i].result.status = "completed"
               /\ \A j \in DOMAIN calls :
                      (i # j /\ calls[j].pc = "returned") =>
                          calls[i].result.request_id # calls[j].result.request_id

C6_Witness ==
    \E i, j \in DOMAIN calls :
        /\ i # j
        /\ calls[i].req = calls[j].req
        /\ calls[i].pc = "returned"
        /\ calls[j].pc = "returned"

\* C7: the lip-sync phonemes, timestamps and mouth_shapes of every
\* _generate_audio output have the same length 50; timestamps start at 0 and
\* grow by one tenth of a second per entry; phonemes and mouth_shapes are
\* cycles of 5 symbols, entry i depending only on i mod 5.
C7_LipsyncAligned ==
    \A c \in DOMAIN calls :
        calls[c].audio_outputs # None =>
            LET l == calls[c].audio_outputs.voice.lipsync_data
            IN  /\ Len(l.phonemes) = 50
                /\ Len(l.timestamps) = 50
                /\ Len(l.mouth_shapes) = 50
                /\ l.timestamps[1] = 0
                /\ \A i \in 1..49 : l.timestamps[i + 1] - l.timestamps[i] = 1
                /\ \A i \in 1..50 : l.timestamps[i] = i - 1
                /\ \A i, j \in 1..50 :
                       (i % 5 = j % 5) <=> (l.phonemes[i] = l.phonemes[j])
                /\ \A i, j \in 1..50 :
                       (i % 5 = j % 5) <=> (l.mouth_shapes[i] = l.mouth_shapes[j])

C7_Witness ==
    \E c \in DOMAIN calls :
        /\ calls[c].audio_outputs # None
        /\ calls[c].audio_outputs.voice.lipsync_data.timestamps[50] = 49

\* C8: every stored status is "processing"; no registry entry is removed or
\* given another status, so a job id answered with 202 is never later
\* answered "Job not found".
C8_RegistryOnlyGrows ==
    [][/\ \A j \in DOMAIN active_jobs :
              j \in DOMAIN active_jobs' /\ active_jobs'[j] = active_jobs[j]
       /\ \A j \in DOMAIN active_jobs' : active_jobs'[j] = "processing"
       /\ issued' \subseteq DOMAIN active_jobs'
       /\ (request'.op = "status" /\ request'.job_id \in issued') =>
              response'.code # 404]_vars

C8_Witness ==
    /\ Cardinality(DOMAIN active_jobs) >= 2
    /\ request.op = "status"
    /\ request.job_id = 1
    /\ response.code = 200

\* C9: when a stage raises, the invocation ends there: the outputs already
\* delivered stay as they were, the failing stage delivers nothing, no later
\* stage starts, no result is returned, and nothing is retried.
C9_ExceptionPropagates ==
    [][\A i \in DOMAIN calls :
           /\ calls[i].exc # "None" => calls'[i] = calls[i]
           /\ (calls[i].exc = "None" /\ calls'[i].exc # "None") =>
                  /\ calls'[i] = [calls[i] EXCEPT !.pc = "raised",
                                                  !.exc = calls'[i].exc]
                  /\ calls'[i].result = None
                  /\ calls'[i].pc \notin Stages \cup {"returned"}]_vars

C9_Witness ==
    /\ \E i \in DOMAIN calls :
           /\ calls[i].exc = "TypeError"
           /\ calls[i].enhanced_text # None
           /\ calls[i].visual_outputs = None
    /\ \E i \in DOMAIN calls :
           /\ calls[i].exc = "CancelledError"
           /\ calls[i].audio_outputs # None
           /\ calls[i].result = None

\* C10: a generate request answered 400 or 500 leaves the registry and the
\* uuid4 count as they were; the registry holds exactly the job ids returned
\* in 202 responses.
C10_ErrorLeavesRegistry ==
    [][/\ (request'.op = "generate" /\ response'.code \in {400, 500}) =>
              /\ active_jobs' = active_jobs
              /\ uuid_count' = uuid_count
       /\ DOMAIN active_jobs' = issued']_vars

C10_Witness ==
    /\ request.op = "generate"
    /\ response.code = 500
    /\ request.data.kind = "object"
    /\ RequiredSet \subseteq request.data.keys
    /\ request.data.intensity = "text_string"
    /\ DOMAIN active_jobs = {1, 2}

====
